---- MODULE Spec2Model ----
(***************************************************************************)
(* The device command pipeline of hue_lighting_toys:                       *)
(*   - BridgeUpdateThread (hue_toys/lightctl_curses.py), the throttled     *)
(*     update worker, under SpecWorker;                                    *)
(*   - ExtendedBridge.request (hue_toys/phue_helper.py), the bounded       *)
(*     retry loop, under SpecRequest;                                      *)
(*   - ExtendedBridge.set_light_optimized and its redundancy filter        *)
(*     _set_light_optimize_params, under SpecFilter;                       *)
(*   - ExtendedBridge._set_light_translate_extensions, the parameter       *)
(*     translator, under SpecTranslate;                                    *)
(*   - ExtendedBridge.collect_light_states and restore_light_states,       *)
(*     under SpecSnapshot.                                                 *)
(* Time is counted in ticks of 0.2 s.  Parameter dictionaries are          *)
(* functions from parameter names to values; where Python's insertion      *)
(* order decides the result they are sequences of <<name, value>> pairs.   *)
(***************************************************************************)
EXTENDS Integers, Sequences, FiniteSets, TLC

VARIABLES
    \* ---- BridgeUpdateThread and its producers
    queue,             \* light_update_queue: FIFO of events, None included
    pending_cmds,      \* self.__pending_cmds: light id -> command dict
    pc,                \* position of BridgeUpdateThread.run
    now,               \* time()
    last_update_time,  \* local of run()
    deadline,          \* when queue.get's timeout or sleep() ends
    nput,              \* events put so far by the UI thread
    inflight,          \* light_id, cmd of __update_bridge: the last call
    recv,              \* history: per light, events merged since its last pop
    dispatched_at,     \* history: light id -> time of its last set_light call
    at_sentinel,       \* history: None taken, and the lights pending then
    bridge_lock,       \* self.bridge_lock is held
    ui,                \* position of the UI thread in refresh_light
    \* ---- ExtendedBridge.request
    retries,           \* self.retries
    retry_wait,        \* self.retry_wait, in seconds
    slept,             \* history: seconds this request() call has slept
    curr_retries,      \* local of request()
    rpc,               \* position of request()
    outcomes,          \* history: how each Bridge.request of this call ended
    ncalls,            \* request() calls made so far
    \* ---- ExtendedBridge.set_light_optimized
    cache,             \* self._cached_light_state[light]
    last,              \* history: the most recent set_light_optimized call
    prev_kinds,        \* history: what the call before that one wrote
    tr,                \* history: the most recent translation of a dict
    \* ---- ExtendedBridge.collect_light_states, restore_light_states
    states,            \* the caller's state dict: light id -> light state
    last_op,           \* history: the most recent collect or restore call
    max_retries,       \* argument of restore_light_states_retry
    rr_pc,             \* position of restore_light_states_retry
    attempts           \* history: how each restore_light_states call ended

wvars == <<queue, pending_cmds, pc, now, last_update_time, deadline, nput,
           inflight, recv, dispatched_at, at_sentinel, bridge_lock, ui>>
rvars == <<retries, retry_wait, slept, curr_retries, rpc, outcomes, ncalls>>
fvars == <<cache, last, prev_kinds, tr>>
svars == <<states, last_op, max_retries, rr_pc, attempts>>
vars == <<wvars, rvars, fvars, svars>>

\* The empty dict {}.
EmptyDict == <<>>

\* d[k] = v on a dict: the other keys are kept.
DictSet(d, k, v) == [x \in (DOMAIN d) \cup {k} |-> IF x = k THEN v ELSE d[x]]

\* d.pop(k, None): the dict without key k.
DictPop(d, k) == [x \in (DOMAIN d) \ {k} |-> d[x]]

(***************************************************************************)
(* BridgeUpdateThread                                                      *)
(***************************************************************************)

\* Bounds of the worker model.
MaxEvents == 3
MaxTime == 6

\* MIN_BRIDGE_CMD_INTERVAL = .4 seconds, in ticks of 0.2 s.
MIN_BRIDGE_CMD_INTERVAL == 2

Lights == {1, 2}

\* The (param, value) pairs the UI thread puts on the queue.
EventSettings == {<<"bri", 10>>, <<"bri", 20>>, <<"hue", 5>>}

\* The queue item None that tells the thread to shut down.
NoneEvent == [light |-> 0, param |-> "None", value |-> 0]

Events ==
    {[light |-> l, param |-> s[1], value |-> s[2]] :
        l \in Lights, s \in EventSettings}

IsNone(e) == e.param = "None"

\* No command has been popped yet.
NoCmd == [light |-> 0, cmd |-> EmptyDict, from |-> <<>>]

\* A worker that has just been started: BridgeUpdateThread.__init__ and the
\* first two lines of run().  time() counts from the epoch, so the first
\* update is due at once.
WorkerIdle ==
    /\ queue = <<>>
    /\ pending_cmds = EmptyDict
    /\ pc = "loop"
    /\ now = MIN_BRIDGE_CMD_INTERVAL
    /\ last_update_time = 0
    /\ deadline = 0
    /\ nput = 0
    /\ inflight = NoCmd
    /\ recv = [l \in Lights |-> <<>>]
    /\ dispatched_at = EmptyDict
    /\ at_sentinel = [seen |-> FALSE, pending |-> {}]
    /\ bridge_lock = FALSE
    /\ ui = "idle"

\* cmd_interval - ((time() - last_update_time) % cmd_interval)
WaitTime(t, last_t) ==
    MIN_BRIDGE_CMD_INTERVAL - ((t - last_t) % MIN_BRIDGE_CMD_INTERVAL)

\* A merge that keeps the value a parameter already has.
MergeEventFirstWins(p, e) ==
    LET old == IF e.light \in DOMAIN p THEN p[e.light] ELSE EmptyDict
    IN DictSet(p, e.light,
               IF e.param \in DOMAIN old THEN old
               ELSE DictSet(old, e.param, e.value))

\* self.__pending_cmds[light_id][param] = value, on a defaultdict(dict).
MergeEvent(p, e) ==
    LET old == IF e.light \in DOMAIN p THEN p[e.light] ELSE EmptyDict
    IN DictSet(p, e.light, DictSet(old, e.param, e.value))

\* light_id, cmd = self.__pending_cmds.popitem(), with the events the
\* command was merged from.
PoppedItem(l) ==
    [light |-> l, cmd |-> pending_cmds[l], from |-> recv[l]]

\* A thread that enters 'with self.bridge_lock:' without waiting for it.
LockIgnored == TRUE

\* 'with self.bridge_lock:' can be entered.
LockFree == ~bridge_lock

\* A worker whose call stores the command as the light's cached state.
BridgeSetLightCaching(light, cmd) == DictSet(cache, light, cmd)

\* self._cached_light_state after self.bridge.set_light(light_id, cmd):
\* set_light does not look at it.
BridgeSetLight(light, cmd) == cache

\* An __update_bridge that sends one command and drops the others.
PopAndCallClears(l, next_pc) ==
    /\ l \in DOMAIN pending_cmds
    /\ LockFree
    /\ bridge_lock' = TRUE
    /\ cache' = BridgeSetLight(l, pending_cmds[l])
    /\ inflight' = PoppedItem(l)
    /\ pending_cmds' = EmptyDict
    /\ recv' = [recv EXCEPT ![l] = <<>>]
    /\ dispatched_at' = DictSet(dispatched_at, l, now)
    /\ pc' = next_pc

\* self.__pending_cmds.popitem() followed by the set_light call under the
\* lock: the dict does not promise which entry it pops.  The thread waits
\* for the lock with the popped command in hand; nothing else reads
\* __pending_cmds, so the pop is taken together with the entry.
PopAndCall(l, next_pc) ==
    /\ l \in DOMAIN pending_cmds
    /\ LockFree
    /\ bridge_lock' = TRUE
    /\ cache' = BridgeSetLight(l, pending_cmds[l])
    /\ inflight' = PoppedItem(l)
    /\ pending_cmds' = DictPop(pending_cmds, l)
    /\ recv' = [recv EXCEPT ![l] = <<>>]
    /\ dispatched_at' = DictSet(dispatched_at, l, now)
    /\ pc' = next_pc

\* The worker is suspended: inside the bridge call, waiting for the lock,
\* in queue.get with nothing to take before the timeout, or in sleep().
Suspended ==
    \/ pc \in {"call", "flushcall"}
    \/ /\ pc = "loop"
       /\ now - last_update_time >= MIN_BRIDGE_CMD_INTERVAL
       /\ DOMAIN pending_cmds # {}
       /\ ~LockFree
    \/ pc = "flush" /\ DOMAIN pending_cmds # {} /\ ~LockFree
    \/ pc = "get" /\ queue = <<>> /\ now < deadline
    \/ pc = "sleep" /\ now < deadline

\* The UI thread has left curses_main: None is on the queue or was taken.
UiEnded ==
    \/ at_sentinel.seen
    \/ \E i \in DOMAIN queue : IsNone(queue[i])

\* The UI thread: light_update_queue.put((light_id, param, value)).
Put(e) ==
    /\ ~UiEnded
    /\ ui = "idle"
    /\ nput < MaxEvents
    /\ queue' = Append(queue, e)
    /\ nput' = nput + 1
    /\ UNCHANGED <<pending_cmds, pc, now, last_update_time, deadline, inflight,
                   recv, dispatched_at, at_sentinel>>
    /\ UNCHANGED <<bridge_lock, ui, rvars, fvars, svars>>

\* A caller other than LightControlProgram, which puts an event after
\* None.
PutLate(e) ==
    /\ UiEnded
    /\ nput < MaxEvents
    /\ queue' = Append(queue, e)
    /\ nput' = nput + 1
    /\ UNCHANGED <<pending_cmds, pc, now, last_update_time, deadline, inflight,
                   recv, dispatched_at, at_sentinel>>
    /\ UNCHANGED <<bridge_lock, ui, rvars, fvars, svars>>

\* LightControlProgram.main: light_update_queue.put(None), once.
PutNone ==
    /\ ~UiEnded
    /\ ui = "idle"
    /\ queue' = Append(queue, NoneEvent)
    /\ UNCHANGED <<pending_cmds, pc, now, last_update_time, deadline, nput,
                   inflight, recv, dispatched_at, at_sentinel>>
    /\ UNCHANGED <<bridge_lock, ui, rvars, fvars, svars>>

\* Time passes while the worker is suspended; its other steps take no time.
Tick ==
    /\ now < MaxTime
    /\ Suspended
    /\ now' = now + 1
    /\ UNCHANGED <<queue, pending_cmds, pc, last_update_time, deadline, nput,
                   inflight, recv, dispatched_at, at_sentinel>>
    /\ UNCHANGED <<bridge_lock, ui, rvars, fvars, svars>>

\* run(), top of the event loop: an update is due and one is pending.
LoopUpdate ==
    /\ pc = "loop"
    /\ now - last_update_time >= MIN_BRIDGE_CMD_INTERVAL
    /\ \E l \in DOMAIN pending_cmds : PopAndCall(l, "call")
    /\ UNCHANGED <<queue, now, last_update_time, deadline, nput, at_sentinel>>
    /\ UNCHANGED <<ui, rvars, last, prev_kinds, tr, svars>>

\* run(), top of the event loop: no update is due, or nothing is pending
\* (__update_bridge returns False); go and wait for an event.
LoopWait ==
    /\ pc = "loop"
    /\ \/ now - last_update_time < MIN_BRIDGE_CMD_INTERVAL
       \/ DOMAIN pending_cmds = {}
    /\ deadline' = now + WaitTime(now, last_update_time)
    /\ pc' = "get"
    /\ UNCHANGED <<queue, pending_cmds, now, last_update_time, nput, inflight,
                   recv, dispatched_at, at_sentinel>>
    /\ UNCHANGED <<bridge_lock, ui, rvars, fvars, svars>>

\* set_light returns in the event loop: last_update_time = time(), then
\* wait for an event.
CallReturn ==
    /\ pc = "call"
    /\ last_update_time' = now
    /\ deadline' = now + WaitTime(now, now)
    /\ pc' = "get"
    /\ UNCHANGED <<queue, pending_cmds, now, nput, inflight, recv,
                   dispatched_at, at_sentinel>>
    /\ bridge_lock' = FALSE
    /\ UNCHANGED <<ui, rvars, fvars, svars>>

\* set_light raises (the bridge's retries are used up): nothing in
\* __update_bridge or run catches it, and the thread ends.
CallRaise ==
    /\ pc \in {"call", "flushcall"}
    /\ pc' = "crashed"
    /\ UNCHANGED <<queue, pending_cmds, now, last_update_time, deadline, nput,
                   inflight, recv, dispatched_at, at_sentinel>>
    /\ bridge_lock' = FALSE
    /\ UNCHANGED <<ui, rvars, fvars, svars>>

\* queue.get(timeout=wait_time) returns an event: merge it.
GetEvent ==
    /\ pc = "get"
    /\ queue # <<>>
    /\ ~IsNone(Head(queue))
    /\ pending_cmds' = MergeEvent(pending_cmds, Head(queue))
    /\ recv' = [recv EXCEPT ![Head(queue).light] = Append(@, Head(queue))]
    /\ queue' = Tail(queue)
    /\ deadline' = 0
    /\ pc' = "loop"
    /\ UNCHANGED <<now, last_update_time, nput, inflight, dispatched_at,
                   at_sentinel>>
    /\ UNCHANGED <<bridge_lock, ui, rvars, fvars, svars>>

\* An event loop that notes None and goes on.
GetNoneGoesOn ==
    /\ pc = "get"
    /\ queue # <<>>
    /\ IsNone(Head(queue))
    /\ queue' = Tail(queue)
    /\ at_sentinel' = [seen |-> TRUE, pending |-> DOMAIN pending_cmds]
    /\ deadline' = 0
    /\ pc' = "loop"
    /\ UNCHANGED <<pending_cmds, now, last_update_time, nput, inflight, recv,
                   dispatched_at>>
    /\ UNCHANGED <<bridge_lock, ui, rvars, fvars, svars>>

\* queue.get returns None: break out of the event loop.
GetNone ==
    /\ pc = "get"
    /\ queue # <<>>
    /\ IsNone(Head(queue))
    /\ queue' = Tail(queue)
    /\ at_sentinel' = [seen |-> TRUE, pending |-> DOMAIN pending_cmds]
    /\ deadline' = 0
    /\ pc' = "flush"
    /\ UNCHANGED <<pending_cmds, now, last_update_time, nput, inflight, recv,
                   dispatched_at>>
    /\ UNCHANGED <<bridge_lock, ui, rvars, fvars, svars>>

\* queue.get raises queue.Empty after wait_time.
GetTimeout ==
    /\ pc = "get"
    /\ queue = <<>>
    /\ now >= deadline
    /\ deadline' = 0
    /\ pc' = "loop"
    /\ UNCHANGED <<queue, pending_cmds, now, last_update_time, nput, inflight,
                   recv, dispatched_at, at_sentinel>>
    /\ UNCHANGED <<bridge_lock, ui, rvars, fvars, svars>>

\* The shutdown loop: while self.__update_bridge(), with a command pending.
FlushUpdate ==
    /\ pc = "flush"
    /\ \E l \in DOMAIN pending_cmds : PopAndCall(l, "flushcall")
    /\ UNCHANGED <<queue, now, last_update_time, deadline, nput, at_sentinel>>
    /\ UNCHANGED <<ui, rvars, last, prev_kinds, tr, svars>>

\* The shutdown loop: __update_bridge returns False, run() returns.
FlushDone ==
    /\ pc = "flush"
    /\ DOMAIN pending_cmds = {}
    /\ pc' = "done"
    /\ UNCHANGED <<queue, pending_cmds, now, last_update_time, deadline, nput,
                   inflight, recv, dispatched_at, at_sentinel>>
    /\ UNCHANGED <<bridge_lock, ui, rvars, fvars, svars>>

\* set_light returns in the shutdown loop: sleep(cmd_interval).
FlushReturn ==
    /\ pc = "flushcall"
    /\ deadline' = now + MIN_BRIDGE_CMD_INTERVAL
    /\ pc' = "sleep"
    /\ UNCHANGED <<queue, pending_cmds, now, last_update_time, nput, inflight,
                   recv, dispatched_at, at_sentinel>>
    /\ bridge_lock' = FALSE
    /\ UNCHANGED <<ui, rvars, fvars, svars>>

\* A shutdown loop that goes back to queue.get after its sleep.
SleepDoneWaitsForEvent ==
    /\ pc = "sleep"
    /\ now >= deadline
    /\ deadline' = now + WaitTime(now, last_update_time)
    /\ pc' = "get"
    /\ UNCHANGED <<queue, pending_cmds, now, last_update_time, nput, inflight,
                   recv, dispatched_at, at_sentinel>>
    /\ UNCHANGED <<bridge_lock, ui, rvars, fvars, svars>>

\* sleep(cmd_interval) is over.
SleepDone ==
    /\ pc = "sleep"
    /\ now >= deadline
    /\ deadline' = 0
    /\ pc' = "flush"
    /\ UNCHANGED <<queue, pending_cmds, now, last_update_time, nput, inflight,
                   recv, dispatched_at, at_sentinel>>
    /\ UNCHANGED <<bridge_lock, ui, rvars, fvars, svars>>

\* refresh_light: with self.bridge_lock, the UI thread calls get_light.
RefreshLight ==
    /\ ~UiEnded
    /\ ui = "idle"
    /\ LockFree
    /\ bridge_lock' = TRUE
    /\ ui' = "get_light"
    /\ UNCHANGED <<queue, pending_cmds, pc, now, last_update_time, deadline,
                   nput, inflight, recv, dispatched_at, at_sentinel>>
    /\ UNCHANGED <<rvars, fvars, svars>>

\* get_light returns or raises: the with statement releases the lock.
GetLightDone ==
    /\ ui = "get_light"
    /\ bridge_lock' = FALSE
    /\ ui' = "idle"
    /\ UNCHANGED <<queue, pending_cmds, pc, now, last_update_time, deadline,
                   nput, inflight, recv, dispatched_at, at_sentinel>>
    /\ UNCHANGED <<rvars, fvars, svars>>

(***************************************************************************)
(* ExtendedBridge.request                                                  *)
(***************************************************************************)

\* Bounds of the request model.
MaxRetries == 3
MaxCalls == 2

\* The values of the 'retries' keyword argument: __init__ stores whatever it
\* is given.
RetryConfigs == (0 - 1)..MaxRetries

DEFAULT_BRIDGE_RETRIES == 8640
DEFAULT_BRIDGE_RETRY_WAIT == 10

\* The values of the 'retry_wait' keyword argument, in seconds.
RetryWaits == {0, DEFAULT_BRIDGE_RETRY_WAIT}

\* A bridge on which request() has not been called.
RequestIdle ==
    /\ curr_retries = 0
    /\ rpc = "idle"
    /\ outcomes = <<>>
    /\ slept = 0
    /\ ncalls = 0

\* A retry test that allows one retry too many.
RetryLimitOffByOne(c, n) == c > n

\* if curr_retries >= self.retries
RetryLimitExceeded(c, n) == c >= n

\* request() is called: curr_retries = 0.
RequestCall ==
    /\ rpc \in {"idle", "returned", "raised", "failed"}
    /\ ncalls < MaxCalls
    /\ ncalls' = ncalls + 1
    /\ curr_retries' = 0
    /\ outcomes' = <<>>
    /\ slept' = 0
    /\ rpc' = "try"
    /\ UNCHANGED <<retries, retry_wait, wvars, fvars, svars>>

\* Bridge.request returns: request() returns its result.
RequestReturn ==
    /\ rpc = "try"
    /\ outcomes' = Append(outcomes, "ok")
    /\ rpc' = "returned"
    /\ UNCHANGED <<retries, retry_wait, slept, curr_retries, ncalls, wvars,
                   fvars, svars>>

\* Bridge.request raises ConnectionError, OSError or PhueRequestTimeout:
\* give up when the retry limit is reached, else sleep before the retry.
RequestCommFailure ==
    /\ rpc = "try"
    /\ outcomes' = Append(outcomes, "comm")
    /\ rpc' = IF RetryLimitExceeded(curr_retries, retries)
              THEN "raised" ELSE "sleep"
    /\ UNCHANGED <<retries, retry_wait, slept, curr_retries, ncalls, wvars,
                   fvars, svars>>

\* Bridge.request raises anything else: the except clause does not match
\* and the exception leaves request() at once.
RequestOtherError ==
    /\ rpc = "try"
    /\ outcomes' = Append(outcomes, "other")
    /\ rpc' = "failed"
    /\ UNCHANGED <<retries, retry_wait, slept, curr_retries, ncalls, wvars,
                   fvars, svars>>

\* time.sleep(self.retry_wait) is over: curr_retries += 1, next attempt.
RequestRetry ==
    /\ rpc = "sleep"
    /\ slept' = slept + retry_wait
    /\ curr_retries' = curr_retries + 1
    /\ rpc' = "try"
    /\ UNCHANGED <<retries, retry_wait, outcomes, ncalls, wvars, fvars,
                   svars>>

(***************************************************************************)
(* ExtendedBridge.set_light_optimized                                      *)
(*                                                                         *)
(* A parameter dict is a sequence of <<name, value>> pairs in insertion    *)
(* order, which is the order Python iterates it in.  Values are integers:  *)
(* 'on' is 0 (False) or 1 (True), which Python compares equal to the       *)
(* booleans, and an 'xy' value is the number of a coordinate pair.         *)
(***************************************************************************)

\* Bound of the filter model: the number of keys of a parameter dict.
MaxParams == 2

\* MIN['ct'], MAX['ct']
MIN_ct == 153
MAX_ct == 500

\* The parameters the callers of the filter model pass.
ParamNames == {"on", "bri", "hue", "xy", "ct", "transitiontime"}

\* The values they pass for each parameter; ct = 100 lies outside
\* [MIN_ct, MAX_ct] and is sent as an xy pair.
ParamValues(k) ==
    CASE k = "on" -> {0, 1}
      [] k = "bri" -> {200}
      [] k = "hue" -> {100}
      [] k = "xy" -> {1}
      [] k = "ct" -> {300, 100}
      [] k = "transitiontime" -> {4}

\* The one light of the filter model.
CacheLights == {1}

SeqKeys(ps) == {ps[i][1] : i \in DOMAIN ps}

\* k in ps
SeqHas(ps, k) == \E i \in DOMAIN ps : ps[i][1] = k

\* ps[k], for a key of ps.
SeqGet(ps, k) == ps[CHOOSE i \in DOMAIN ps : ps[i][1] = k][2]

\* ps[k] = v: a new key goes to the end, an old one keeps its place.
SeqSet(ps, k, v) ==
    IF k \in SeqKeys(ps)
    THEN [i \in DOMAIN ps |-> IF ps[i][1] = k THEN <<k, v>> ELSE ps[i]]
    ELSE Append(ps, <<k, v>>)

\* ps.pop(k, None)
SeqPop(ps, k) == SelectSeq(ps, LAMBDA p : p[1] # k)

\* The parameter dicts of at most n keys.
RECURSIVE ParamDicts(_)
ParamDicts(n) ==
    IF n = 0 THEN {<<>>}
    ELSE LET shorter == ParamDicts(n - 1)
         IN shorter \cup
            UNION {{Append(ps, <<k, v>>) : v \in ParamValues(k)} :
                   <<ps, k>> \in {x \in shorter \X ParamNames :
                                    x[2] \notin SeqKeys(x[1])}}

\* The dicts the callers of the filter model pass.
CallerDicts == ParamDicts(MaxParams)

\* tungsten_cct(brightness) = 5.63925392181 * brightness + 1423.98106079,
\* to the integer below.
tungsten_cct(brightness) == (5639 * brightness + 1423981) \div 1000

\* iconv_ct(color_temp) = int(1000000 / color_temp)
iconv_ct(color_temp) == 1000000 \div color_temp

\* kelvin_to_xy(kelvin): the coordinate pair of a colour temperature, named
\* by the temperature; no caller's pair has such a number.
kelvin_to_xy(kelvin) == 100000 + kelvin

\* _set_light_translate_extensions(params_dict)
TranslateInc(ps) ==
    IF "inc" \in SeqKeys(ps)
    THEN SeqSet(SeqPop(SeqSet(ps, "bri", SeqGet(ps, "inc")), "inc"),
                "ctk", tungsten_cct(SeqGet(ps, "inc")))
    ELSE ps

TranslateCt(ps) ==
    IF "ct" \in SeqKeys(ps)
       /\ ~(MIN_ct <= SeqGet(ps, "ct") /\ SeqGet(ps, "ct") <= MAX_ct)
    THEN SeqSet(SeqPop(ps, "ct"), "ctk", iconv_ct(SeqGet(ps, "ct")))
    ELSE ps

\* MIN['ctk'], MAX['ctk']
MIN_ctk == 2000
MAX_ctk == 6535

\* A last step that leaves the 'ctk' key in the dict.
TranslateCtkKeepsKey(ps) ==
    IF "ctk" \in SeqKeys(ps)
    THEN SeqSet(ps, "xy", kelvin_to_xy(SeqGet(ps, "ctk")))
    ELSE ps

\* A last step that turns a 'ctk' within MIN['ctk']..MAX['ctk'] into 'ct'.
TranslateCtkNative(ps) ==
    IF "ctk" \in SeqKeys(ps)
    THEN IF MIN_ctk <= SeqGet(ps, "ctk") /\ SeqGet(ps, "ctk") <= MAX_ctk
         THEN SeqSet(SeqPop(ps, "ctk"), "ct", iconv_ct(SeqGet(ps, "ctk")))
         ELSE SeqSet(SeqPop(ps, "ctk"), "xy",
                     kelvin_to_xy(SeqGet(ps, "ctk")))
    ELSE ps

TranslateCtk(ps) ==
    IF "ctk" \in SeqKeys(ps)
    THEN SeqSet(SeqPop(ps, "ctk"), "xy", kelvin_to_xy(SeqGet(ps, "ctk")))
    ELSE ps

TranslateExtensions(ps) == TranslateCtk(TranslateCt(TranslateInc(ps)))

\* A dict as Python compares it: the mapping, whatever the order of keys.
AsDict(ps) == [k \in SeqKeys(ps) |-> SeqGet(ps, k)]

\* The dicts with the items of ps, in every order.
Reorderings(ps) ==
    {[i \in DOMAIN ps |-> ps[f[i]]] :
        f \in {g \in [DOMAIN ps -> DOMAIN ps] :
                 \A i, j \in DOMAIN ps : g[i] = g[j] => i = j}}

\* Bound of the translator model: the number of keys of a dict.
MaxExtParams == 3

\* The parameters the callers of set_light pass, the extended ones
\* included.
ExtParamNames == {"on", "bri", "hue", "sat", "xy", "ct", "ctk", "inc"}

\* The values they pass: ct = 100 lies outside MIN['ct']..MAX['ct'], and
\* ctk = 1600 outside MIN['ctk']..MAX['ctk'].
ExtParamValues(k) ==
    CASE k = "on" -> {1}
      [] k = "bri" -> {200}
      [] k = "hue" -> {100}
      [] k = "sat" -> {50}
      [] k = "xy" -> {1}
      [] k = "ct" -> {300, 100}
      [] k = "ctk" -> {2700, 1600}
      [] k = "inc" -> {120}

\* The dicts of at most n keys over these parameters.
RECURSIVE ExtParamDicts(_)
ExtParamDicts(n) ==
    IF n = 0 THEN {<<>>}
    ELSE LET shorter == ExtParamDicts(n - 1)
         IN shorter \cup
            UNION {{Append(ps, <<k, v>>) : v \in ExtParamValues(k)} :
                   <<ps, k>> \in {x \in shorter \X ExtParamNames :
                                    x[2] \notin SeqKeys(x[1])}}

\* No dict has been translated.
NoTranslation == [input |-> <<>>, output |-> <<>>]

\* _set_light_translate_extensions(params_dict): params_dict before and
\* after the call.
TranslateCall(params_dict) ==
    /\ tr' = [input |-> params_dict,
              output |-> TranslateExtensions(params_dict)]
    /\ UNCHANGED <<cache, last, prev_kinds, wvars, rvars, svars>>

\* A filter that keeps the colour parameters of every representation.
EvictedByOffOnly(param, value) ==
    IF param = "on" /\ value = 0 THEN {"bri"} ELSE {}

\* The cached parameters that writing param with value drops: the first
\* if/elif chain of the loop of _set_light_optimize_params.
Evicted(param, value) ==
    IF param = "on" /\ value = 0 THEN {"bri"}
    ELSE IF param \in {"hue", "sat"} THEN {"xy", "ct"}
    ELSE IF param = "xy" THEN {"hue", "sat", "ct"}
    ELSE IF param = "ct" THEN {"hue", "sat", "xy"}
    ELSE {}

\* A filter that elides transitiontime like any other parameter.
IsRedundantAlways(state, param, value) ==
    param \in DOMAIN state /\ value = state[param]

\* if param in state and value == state[param]: if param != 'transitiontime'
IsRedundant(state, param, value) ==
    /\ param \in DOMAIN state
    /\ value = state[param]
    /\ param # "transitiontime"

\* A pass that does not write the parameter to the cached state.
OptimizeStepNoStore(acc, param, value) ==
    [state |-> [k \in (DOMAIN acc.state) \ Evicted(param, value) |->
                  acc.state[k]],
     new_params |-> acc.new_params]

\* One pass of the for loop of _set_light_optimize_params.
OptimizeStep(acc, param, value) ==
    LET state == [k \in (DOMAIN acc.state) \ Evicted(param, value) |->
                    acc.state[k]]
    IN [state |-> DictSet(state, param, value),
        new_params |-> IF IsRedundant(state, param, value)
                       THEN SeqPop(acc.new_params, param)
                       ELSE acc.new_params]

\* _set_light_optimize_params(light_id, params) on cached state 'state':
\* the cached state it leaves and the dict it returns.
RECURSIVE OptimizeLoop(_, _, _)
OptimizeLoop(acc, params, i) ==
    IF i > Len(params) THEN acc
    ELSE OptimizeLoop(OptimizeStep(acc, params[i][1], params[i][2]),
                      params, i + 1)

OptimizeParams(state, params) ==
    OptimizeLoop([state |-> state, new_params |-> params], params, 1)

\* A set_light that calls the bridge with an empty dict too.
SetLightAlways(light, params) ==
    <<[light |-> light, params |-> TranslateExtensions(params)]>>

\* set_light(light_id, parameter): the Bridge.set_light calls it makes.
SetLight(light, params) ==
    IF TranslateExtensions(params) # <<>>
    THEN <<[light |-> light, params |-> TranslateExtensions(params)]>>
    ELSE <<>>

\* What a dict writes that drops cached parameters.
Kinds(params) ==
    {kind \in {"off", "hs", "xy", "ct"} :
        \E i \in DOMAIN params :
            \/ kind = "off" /\ params[i] = <<"on", 0>>
            \/ kind = "hs" /\ params[i][1] \in {"hue", "sat"}
            \/ kind = "xy" /\ params[i][1] = "xy"
            \/ kind = "ct" /\ params[i][1] = "ct"}

\* No set_light_optimized call has been made.
NoCall == [light |-> 0, params |-> <<>>, out |-> <<>>, sent |-> <<>>,
           clear |-> FALSE, raised |-> FALSE]

\* A bridge on which set_light_optimized has not been called.
FilterIdle ==
    /\ cache = [l \in CacheLights |-> EmptyDict]
    /\ last = NoCall
    /\ prev_kinds = {}
    /\ tr = NoTranslation

\* set_light_optimized(light_id, parameter, clear_cache=clear) for one
\* light, with 'parameter' a dict.
SetLightOptimized(light, parameter, clear) ==
    LET params == TranslateExtensions(parameter)
        cleared == IF clear THEN [l \in CacheLights |-> EmptyDict] ELSE cache
        opt == OptimizeParams(cleared[light], params)
    IN /\ cache' = [cleared EXCEPT ![light] = opt.state]
       /\ last' = [light |-> light, params |-> params,
                   out |-> opt.new_params,
                   sent |-> SetLight(light, opt.new_params),
                   clear |-> clear, raised |-> FALSE]
       /\ prev_kinds' = Kinds(last.params)
       /\ UNCHANGED <<tr, wvars, rvars, svars>>

\* set_light_optimized(light_id, parameter, clear_cache=clear) whose
\* set_light call raises: request() has given up on the bridge.  The filter
\* has run before the call.
SetLightOptimizedRaises(light, parameter, clear) ==
    LET params == TranslateExtensions(parameter)
        cleared == IF clear THEN [l \in CacheLights |-> EmptyDict] ELSE cache
        opt == OptimizeParams(cleared[light], params)
    IN /\ SetLight(light, opt.new_params) # <<>>
       /\ cache' = [cleared EXCEPT ![light] = opt.state]
       /\ last' = [light |-> light, params |-> params,
                   out |-> opt.new_params, sent |-> <<>>,
                   clear |-> clear, raised |-> TRUE]
       /\ prev_kinds' = Kinds(last.params)
       /\ UNCHANGED <<tr, wvars, rvars, svars>>

(***************************************************************************)
(* ExtendedBridge.collect_light_states and restore_light_states            *)
(***************************************************************************)

\* The keys of get_light(light)['state'], in the bridge's order.
StateKeys ==
    <<"on", "bri", "hue", "sat", "xy", "ct", "alert", "colormode", "mode",
      "reachable">>

\* A colour light's state as get_light returns it.
ColourLight(reachable, on, colormode, bri, ct) ==
    [on |-> on, bri |-> bri, hue |-> 100, sat |-> 50, xy |-> 1, ct |-> ct,
     alert |-> "none", colormode |-> colormode, mode |-> "homeautomation",
     reachable |-> reachable]

\* The state of a light that has no colour: a dimmable lamp at full
\* brightness.
DimmableLight ==
    [on |-> 1, bri |-> 254, alert |-> "none", mode |-> "homeautomation",
     reachable |-> TRUE]

\* The states get_light returns in the model: the power-on default, a
\* light in hs mode, a light that is off in xy mode, an unreachable light
\* (the bridge reports what it last knew), a light in ct mode whose ct lies
\* above MAX['ct'], and a dimmable lamp.
LightStates ==
    {ColourLight(TRUE, 1, "ct", 254, 366),
     ColourLight(TRUE, 1, "hs", 100, 300),
     ColourLight(TRUE, 0, "xy", 100, 300),
     ColourLight(FALSE, 1, "ct", 254, 366),
     ColourLight(TRUE, 1, "ct", 100, 555),
     DimmableLight}

\* The light_ids sequences the callers pass.
LightIdSeqs == {<<1>>, <<2>>, <<1, 2>>}

\* The lights of a sequence.
Range(seq) == {seq[i] : i \in DOMAIN seq}

\* The transitiontime arguments of the model: the default and none.
TransitionTimes == {4, 0}

\* A parameter dict as the sequence of its items, in the bridge's order.
DictItems(d) ==
    LET ks == SelectSeq(StateKeys, LAMBDA k : k \in DOMAIN d)
    IN [i \in DOMAIN ks |-> <<ks[i], d[ks[i]]>>]

\* The version of normalize_light_state that leaves the 'mode' key in.
normalized_with_mode(state) ==
    LET others ==
          IF "colormode" \in DOMAIN state
          THEN CASE state.colormode = "hs" -> {"ct", "xy"}
                 [] state.colormode = "ct" -> {"hue", "sat", "xy"}
                 [] state.colormode = "xy" -> {"ct", "hue", "sat"}
                 [] OTHER -> {}
          ELSE {}
    IN [k \in (DOMAIN state) \ (others \cup {"colormode", "reachable"}) |->
          state[k]]

\* normalized_light_state(state)
normalized_light_state(state) ==
    LET others ==
          IF "colormode" \in DOMAIN state
          THEN CASE state.colormode = "hs" -> {"ct", "xy"}
                 [] state.colormode = "ct" -> {"hue", "sat", "xy"}
                 [] state.colormode = "xy" -> {"ct", "hue", "sat"}
                 [] OTHER -> {}
          ELSE {}
    IN [k \in (DOMAIN state) \
                ({"mode"} \cup others \cup {"colormode", "reachable"}) |->
          state[k]]

\* state.get(key, default)
DictGet(d, k, default) == IF k \in DOMAIN d THEN d[k] ELSE default

\* light_state_is_default(state)
light_state_is_default(state) ==
    /\ state.reachable
    /\ state.on = 1
    /\ DictGet(state, "colormode", "ct") = "ct"
    /\ DictGet(state, "ct", 366) = 366
    /\ DictGet(state, "bri", 0) = 254

\* One pass of a loop that leaves out an unreachable light of which the
\* dict has no state.
CollectStepSkipUnreachable(state, light, light_state, include) ==
    IF light_state.reachable
       /\ (~light_state_is_default(light_state) \/ include)
    THEN DictSet(state, light, light_state)
    ELSE state

\* One pass of a loop that stores whatever get_light returns.
CollectStepOverwrite(state, light, light_state, include) ==
    DictSet(state, light, light_state)

\* One pass of the loop of collect_light_states, with light_state what
\* get_light(light)['state'] is.
CollectStep(state, light, light_state, include) ==
    IF light_state.reachable
    THEN IF ~light_state_is_default(light_state) \/ include
         THEN DictSet(state, light, light_state)
         ELSE state
    ELSE IF light \notin DOMAIN state
         THEN DictSet(state, light, light_state)
         ELSE state

\* collect_light_states(light_ids, state, include_default_state), with
\* got[light] what get_light(light)['state'] is: the dict it returns.
RECURSIVE CollectLoop(_, _, _, _, _)
CollectLoop(state, light_ids, got, include, i) ==
    IF i > Len(light_ids) THEN state
    ELSE CollectLoop(CollectStep(state, light_ids[i], got[light_ids[i]],
                                 include),
                     light_ids, got, include, i + 1)

\* The set_light call restore_light_states makes for a light, and what
\* set_light sends to the bridge for it.
RestoreCall(light, light_state, transitiontime) ==
    [light |-> light,
     parameter |-> normalized_light_state(light_state),
     transitiontime |-> transitiontime,
     sent |-> SetLight(light, DictItems(normalized_light_state(light_state)))]

\* A loop that gives up at a light of which the dict has no state.
RECURSIVE RestoreLoopStrict(_, _, _, _, _, _)
RestoreLoopStrict(calls, light_ids, state, transitiontime, busy, i) ==
    IF i > Len(light_ids) THEN [calls |-> calls, raised |-> FALSE]
    ELSE IF light_ids[i] \notin DOMAIN state
    THEN [calls |-> calls, raised |-> TRUE]
    ELSE LET call == RestoreCall(light_ids[i], state[light_ids[i]],
                                 transitiontime)
         IN IF light_ids[i] \in busy
            THEN [calls |-> Append(calls, call), raised |-> TRUE]
            ELSE RestoreLoopStrict(Append(calls, call), light_ids, state,
                                   transitiontime, busy, i + 1)

\* restore_light_states(light_ids, state, transitiontime), with busy the
\* lights whose set_light result holds an error of type 901: the set_light
\* calls it makes, and whether it raises BridgeInternalError.
RECURSIVE RestoreLoop(_, _, _, _, _, _)
RestoreLoop(calls, light_ids, state, transitiontime, busy, i) ==
    IF i > Len(light_ids) THEN [calls |-> calls, raised |-> FALSE]
    ELSE IF light_ids[i] \notin DOMAIN state
    THEN RestoreLoop(calls, light_ids, state, transitiontime, busy, i + 1)
    ELSE LET call == RestoreCall(light_ids[i], state[light_ids[i]],
                                 transitiontime)
         IN IF light_ids[i] \in busy
            THEN [calls |-> Append(calls, call), raised |-> TRUE]
            ELSE RestoreLoop(Append(calls, call), light_ids, state,
                             transitiontime, busy, i + 1)

\* A normalized_light_state that pops the keys from the dict it is given.
WorksOnState == FALSE

\* new_state = state.copy(): normalized_light_state returns a dict of its
\* own, and that dict is what set_light translates in place.
CopiesState == TRUE

\* The caller's state dict after the set_light call for a light: set_light
\* has translated, in place, the dict normalized_light_state returned.
StateAfterCall(state, call) ==
    IF CopiesState THEN state
    ELSE DictSet(state, call.light,
                 AsDict(TranslateExtensions(DictItems(call.parameter))))

\* The caller's state dict after the set_light calls from the i-th on.
RECURSIVE StateAfterCalls(_, _, _)
StateAfterCalls(state, calls, i) ==
    IF i > Len(calls) THEN state
    ELSE StateAfterCalls(StateAfterCall(state, calls[i]), calls, i + 1)

\* Neither collect_light_states nor restore_light_states has been called.
NoOp == [op |-> "none"]

\* A program that has collected no light state yet.
SnapshotIdle ==
    /\ states = EmptyDict
    /\ last_op = NoOp
    /\ max_retries = 0
    /\ rr_pc = "idle"
    /\ attempts = <<>>

\* restore_light_states_retry is not running.
RetryIdle == rr_pc \in {"idle", "returned", "gave_up", "raised"}

\* states = collect_light_states(light_ids, states, include) or, with
\* fresh, collect_light_states(light_ids, None, include).
CollectLightStates(light_ids, got, include, fresh) ==
    LET before == IF fresh THEN EmptyDict ELSE states
    IN /\ RetryIdle
       /\ states' = CollectLoop(before, light_ids, got, include, 1)
       /\ last_op' = [op |-> "collect", light_ids |-> light_ids, got |-> got,
                      include |-> include, before |-> before]
       /\ UNCHANGED <<max_retries, rr_pc, attempts>>
       /\ UNCHANGED <<wvars, rvars, fvars>>

\* restore_light_states(light_ids, states, transitiontime)
RestoreLightStates(light_ids, transitiontime, busy) ==
    LET done == RestoreLoop(<<>>, light_ids, states, transitiontime, busy, 1)
    IN /\ RetryIdle
       /\ last_op' = [op |-> "restore", light_ids |-> light_ids,
                      transitiontime |-> transitiontime, busy |-> busy,
                      calls |-> done.calls, raised |-> done.raised]
       /\ states' = StateAfterCalls(states, done.calls, 1)
       /\ UNCHANGED <<max_retries, rr_pc, attempts>>
       /\ UNCHANGED <<wvars, rvars, fvars>>

\* The max_retries arguments of the model.
RetryArgs == (0 - 2)..MaxRetries

\* A loop of max_retries + 1 passes, none when that is not positive.
RetryPassesNoFloor(n) == IF n + 1 > 0 THEN n + 1 ELSE 0

\* max(max_retries + 1, 1), the passes of the for loop.
RetryPasses(n) == IF n + 1 > 1 THEN n + 1 ELSE 1

\* restore_light_states_retry(max_retries, retry_wait, light_ids, states,
\* transitiontime) is called.  (restore_light_states is the one above, but
\* for the 'mode' key of the states it sends.)
RestoreRetryCall(n, light_ids, transitiontime) ==
    /\ RetryIdle
    /\ max_retries' = n
    /\ attempts' = <<>>
    /\ rr_pc' = IF RetryPasses(n) > 0 THEN "try" ELSE "gave_up"
    /\ last_op' = [op |-> "restore", light_ids |-> light_ids,
                   transitiontime |-> transitiontime, busy |-> {},
                   calls |-> <<>>, raised |-> FALSE]
    /\ UNCHANGED states
    /\ UNCHANGED <<wvars, rvars, fvars>>

\* One pass of the loop: restore_light_states returns, and the loop is
\* left, or raises BridgeInternalError, and sleep(retry_wait) follows.
RestoreAttempt(busy) ==
    LET done == RestoreLoop(<<>>, last_op.light_ids, states,
                            last_op.transitiontime, busy, 1)
    IN /\ rr_pc = "try"
       /\ attempts' = Append(attempts, IF done.raised THEN "busy" ELSE "ok")
       /\ rr_pc' = IF done.raised THEN "sleep" ELSE "returned"
       /\ last_op' = [last_op EXCEPT !.busy = busy, !.calls = done.calls,
                                     !.raised = done.raised]
       /\ states' = StateAfterCalls(states, done.calls, 1)
       /\ UNCHANGED max_retries
       /\ UNCHANGED <<wvars, rvars, fvars>>

\* One pass of the loop: restore_light_states raises something else, which
\* the except clause does not catch.
RestoreAttemptFails ==
    /\ rr_pc = "try"
    /\ attempts' = Append(attempts, "other")
    /\ rr_pc' = "raised"
    /\ UNCHANGED <<states, last_op, max_retries>>
    /\ UNCHANGED <<wvars, rvars, fvars>>

\* sleep(retry_wait) is over: the next pass or, after the last, the else
\* clause of the for loop.
RestoreRetrySleepDone ==
    /\ rr_pc = "sleep"
    /\ rr_pc' = IF Len(attempts) < RetryPasses(max_retries) THEN "try"
                ELSE "gave_up"
    /\ UNCHANGED <<states, last_op, max_retries, attempts>>
    /\ UNCHANGED <<wvars, rvars, fvars>>

\* The bridge as BaseProgram.get_bridge makes it, for the models that do
\* not look into request().
DefaultBridge ==
    /\ retries = DEFAULT_BRIDGE_RETRIES
    /\ retry_wait = DEFAULT_BRIDGE_RETRY_WAIT
    /\ RequestIdle

InitWorker == WorkerIdle /\ DefaultBridge /\ FilterIdle /\ SnapshotIdle

NextWorker ==
    \/ \E e \in Events : Put(e)
    \/ PutNone
    \/ Tick
    \/ LoopUpdate
    \/ LoopWait
    \/ CallReturn
    \/ CallRaise
    \/ GetEvent
    \/ GetNone
    \/ GetTimeout
    \/ FlushUpdate
    \/ FlushDone
    \/ FlushReturn
    \/ SleepDone
    \/ RefreshLight
    \/ GetLightDone

SpecWorker == InitWorker /\ [][NextWorker]_vars

\* The last write for each parameter among the events of a sequence.
LastWins(evs) ==
    [k \in {evs[i].param : i \in DOMAIN evs} |->
        LET n == CHOOSE i \in DOMAIN evs :
                    /\ evs[i].param = k
                    /\ \A j \in DOMAIN evs : evs[j].param = k => j <= i
        IN evs[n].value]

\* This step pops a command and calls set_light with it.
Dispatching == pc \in {"loop", "flush"} /\ pc' \in {"call", "flushcall"}

\* The events for light l that are on the queue, ahead of None.
Waiting(l) ==
    {i \in DOMAIN queue :
        /\ ~at_sentinel.seen
        /\ queue[i].light = l
        /\ \A j \in 1..i : ~IsNone(queue[j])}

\* The worker's thread has ended.
Terminated == pc \in {"done", "crashed"}

\* C1 as stated: a burst for one target that is on the queue before the
\* dispatch gives one command with the last value of each parameter: no
\* command is dispatched with a value that an event already on the queue
\* for the same target and parameter overwrites.
C1_BurstOneCommand ==
    [][Dispatching =>
        \A i \in Waiting(inflight'.light) :
            queue[i].param \in DOMAIN inflight'.cmd
                => inflight'.cmd[queue[i].param] = queue[i].value]_vars

\* C1 amended: every dispatched command holds, for each parameter, the value
\* of the last event for its target that the worker took from the queue
\* since the target's previous dispatch, and has no other key.
C1_Coalesced ==
    inflight # NoCmd => inflight.cmd = LastWins(inflight.from)

\* A dispatched command in which a later event overwrote an earlier one.
C1_Witness ==
    \E i, j \in DOMAIN inflight.from :
        /\ i < j
        /\ inflight.from[i].param = inflight.from[j].param
        /\ inflight.from[i].value # inflight.from[j].value
        /\ inflight.cmd[inflight.from[i].param] = inflight.from[j].value

\* C2: two dispatches for one target are never closer together than
\* MIN_BRIDGE_CMD_INTERVAL, the shutdown flush included.
C2_BoundedRate ==
    [][(Dispatching /\ inflight'.light \in DOMAIN dispatched_at)
         => now - dispatched_at[inflight'.light] >= MIN_BRIDGE_CMD_INTERVAL]_vars

\* C3: once None has been taken, the thread ends only after every target
\* that was pending then has been popped and its set_light call made.
C3_GracefulShutdown ==
    (at_sentinel.seen /\ Terminated)
        => at_sentinel.pending \cap DOMAIN pending_cmds = {}

\* C4: a set_light call that raises does not end the thread.
C4_FailureIsolation == pc # "crashed"

\* C24: __pending_cmds has one command for each light with events taken
\* since the light's last pop and none for the others, and the command is
\* the last-write-wins merge of those events; a dispatch sends that merge
\* for its light and removes that light's command and no other.
C24_PendingCommand ==
    /\ [](\A l \in Lights :
            IF recv[l] = <<>> THEN l \notin DOMAIN pending_cmds
            ELSE /\ l \in DOMAIN pending_cmds
                 /\ pending_cmds[l] = LastWins(recv[l]))
    /\ [][Dispatching =>
            /\ inflight'.light \in DOMAIN pending_cmds
            /\ inflight'.cmd = LastWins(recv[inflight'.light])
            /\ pending_cmds' = DictPop(pending_cmds, inflight'.light)]_vars

\* With commands pending for both lights, the merge of one light's events
\* is in the set_light call and the other light's command is still pending.
C24_Witness ==
    /\ pc \in {"call", "flushcall"}
    /\ inflight.from # <<>>
    /\ inflight.cmd = LastWins(inflight.from)
    /\ DOMAIN pending_cmds = Lights \ {inflight.light}

\* self._cached_light_state[l], a defaultdict(dict).
Cached(l) == IF l \in DOMAIN cache THEN cache[l] ELSE EmptyDict

C12_MutualExclusion ==
    /\ ~(pc \in {"call", "flushcall"} /\ ui = "get_light")
    /\ (pc \in {"call", "flushcall"} \/ ui = "get_light") => bridge_lock

\* The UI thread is inside get_light while the worker has a command to
\* send that is due.
C12_Witness ==
    /\ ui = "get_light"
    /\ pc = "loop"
    /\ now - last_update_time >= MIN_BRIDGE_CMD_INTERVAL
    /\ DOMAIN pending_cmds # {}

(***************************************************************************)
(* SpecRequest: one bridge, constructed with any retry count, on which     *)
(* request() is called a few times against a bridge connection that may    *)
(* fail at every attempt.                                                  *)
(***************************************************************************)

InitRequest ==
    /\ retries \in RetryConfigs
    /\ retry_wait \in RetryWaits
    /\ RequestIdle
    /\ WorkerIdle
    /\ FilterIdle
    /\ SnapshotIdle

NextRequest ==
    \/ RequestCall
    \/ RequestReturn
    \/ RequestCommFailure
    \/ RequestOtherError
    \/ RequestRetry

SpecRequest == InitRequest /\ [][NextRequest]_vars

\* The number of Bridge.request calls the current request() call has made.
Attempts == Len(outcomes)

\* C5: with retries = n >= 0, a request() whose every attempt fails with a
\* communication failure makes exactly n + 1 attempts and then raises; a
\* request() whose attempt k <= n + 1 succeeds returns after exactly k
\* attempts, the first k - 1 of them communication failures.
C5_RetryExhaustion ==
    retries >= 0 =>
        /\ Attempts <= retries + 1
        /\ rpc = "raised" =>
              /\ Attempts = retries + 1
              /\ \A i \in DOMAIN outcomes : outcomes[i] = "comm"
        /\ rpc = "returned" =>
              /\ outcomes[Attempts] = "ok"
              /\ \A i \in 1..(Attempts - 1) : outcomes[i] = "comm"
        /\ (\A i \in DOMAIN outcomes : outcomes[i] = "comm") =>
              rpc \in {"idle", "try", "sleep", "raised"}

\* A request() with retries = 2 that gave up after three failed attempts.
C5_Witness ==
    /\ retries = 2
    /\ rpc = "raised"
    /\ outcomes = <<"comm", "comm", "comm">>

\* C23: no request is attempted on a bridge that was made with a negative
\* retries or retry_wait: the constructor rejects them.
C23_ConfigRejected ==
    Attempts > 0 => retries >= 0 /\ retry_wait >= 0

(***************************************************************************)
(* SpecFilter: any sequence of set_light_optimized calls on one bridge.    *)
(***************************************************************************)

InitFilter == FilterIdle /\ WorkerIdle /\ DefaultBridge /\ SnapshotIdle

NextFilter ==
    \E light \in CacheLights, parameter \in CallerDicts,
       clear \in BOOLEAN :
        SetLightOptimized(light, parameter, clear)

SpecFilter == InitFilter /\ [][NextFilter]_vars

\* The values of the model's parameters.
Values == UNION {ParamValues(k) : k \in ParamNames}

\* _set_light_optimize_params(light_id, {k: v}) on cached state 'state'.
FilterOne(state, k, v) == OptimizeParams(state, <<<<k, v>>>>)

\* The colour representations the call before the last one wrote.
PrevColours == prev_kinds \cap {"hs", "xy", "ct"}

\* The keys of a colour representation.
KeysOf(kind) ==
    CASE kind = "hs" -> {"hue", "sat"}
      [] kind = "xy" -> {"xy"}
      [] kind = "ct" -> {"ct"}

\* C6 as stated: for any cached key k = v, the filter returns an empty set
\* for {k: v}, and for {k: w} with w # v it returns {k: w} and leaves k = w
\* in the cache.
C6_DedupAnyKey ==
    \A l \in CacheLights : \A k \in DOMAIN cache[l] :
        /\ FilterOne(cache[l], k, cache[l][k]).new_params = <<>>
        /\ \A w \in Values \ {cache[l][k]} :
              /\ FilterOne(cache[l], k, w).new_params = <<<<k, w>>>>
              /\ FilterOne(cache[l], k, w).state[k] = w

\* C6 amended: for any cached key k = v other than transitiontime, the
\* filter returns an empty set for {k: v}; for transitiontime it returns
\* {k: v}; for {k: w} with w # v it returns {k: w} and leaves k = w in the
\* cache.
C6_Dedup ==
    \A l \in CacheLights : \A k \in DOMAIN cache[l] :
        /\ FilterOne(cache[l], k, cache[l][k]).new_params =
              IF k = "transitiontime" THEN <<<<k, cache[l][k]>>>> ELSE <<>>
        /\ \A w \in Values \ {cache[l][k]} :
              /\ FilterOne(cache[l], k, w).new_params = <<<<k, w>>>>
              /\ FilterOne(cache[l], k, w).state[k] = w

\* A call with one key, cached with the same value, came out empty.
C6_Witness ==
    /\ Len(last.params) = 1
    /\ ~last.clear
    /\ last.out = <<>>
    /\ cache[last.light][last.params[1][1]] = last.params[1][2]

\* C7 as stated: after a call whose input writes keys of a representation
\* R1, the next call does not elide a key of another representation R2.
C7_ModeInvalidation ==
    \A R1 \in PrevColours : \A R2 \in {"hs", "xy", "ct"} \ {R1} :
        \A k \in KeysOf(R2) \cap SeqKeys(last.params) :
            k \in SeqKeys(last.out)

\* C7 amended: after a call whose colour keys all belong to one
\* representation R1, the next call does not elide a key of another
\* representation R2.
C7_SingleModeInvalidation ==
    \A R1 \in PrevColours : \A R2 \in {"hs", "xy", "ct"} \ {R1} :
        PrevColours = {R1} =>
            \A k \in KeysOf(R2) \cap SeqKeys(last.params) :
                k \in SeqKeys(last.out)

\* A call that wrote only ct, after a call that wrote only hue, sent ct.
C7_Witness ==
    /\ PrevColours = {"hs"}
    /\ ~last.clear
    /\ last.params = <<<<"ct", 300>>>>
    /\ last.out = <<<<"ct", 300>>>>

\* C8: after a call with on = false in its input, the next call does not
\* elide bri.
C8_OffForgetsBri ==
    ("off" \in prev_kinds /\ SeqHas(last.params, "bri"))
        => SeqHas(last.out, "bri")

\* C9 as stated: after a call the cache holds every key of the call's
\* input with the input's value.
C9_CacheHoldsInput ==
    \A i \in DOMAIN last.params :
        /\ last.params[i][1] \in DOMAIN cache[last.light]
        /\ cache[last.light][last.params[i][1]] = last.params[i][2]

\* Key i of the input is dropped by a key that comes after it.
EvictedLater(params, i) ==
    \E j \in DOMAIN params :
        j > i /\ params[i][1] \in Evicted(params[j][1], params[j][2])

\* C9 amended: after a call the cache holds every key of the call's input
\* with the input's value, except the keys that a later key of the same
\* input drops, which it does not hold.
C9_CacheHoldsSurvivors ==
    \A i \in DOMAIN last.params :
        IF EvictedLater(last.params, i)
        THEN last.params[i][1] \notin DOMAIN cache[last.light]
        ELSE /\ last.params[i][1] \in DOMAIN cache[last.light]
             /\ cache[last.light][last.params[i][1]] = last.params[i][2]

\* A call left its second key in the cache and not its first, which the
\* second drops.
C9_Witness ==
    /\ Len(last.params) = 2
    /\ EvictedLater(last.params, 1)
    /\ last.params[1][1] \notin DOMAIN cache[last.light]
    /\ cache[last.light][last.params[2][1]] = last.params[2][2]

\* C10: a call whose filtered set is empty makes no Bridge.set_light call,
\* and a call whose filtered set is not empty makes one, for its light and
\* with the filtered set.
C10_NoRequestIffEmpty ==
    last # NoCall =>
        IF last.out = <<>>
        THEN last.sent = <<>>
        ELSE last.sent = <<[light |-> last.light,
                            params |-> TranslateExtensions(last.out)]>>

\* A call with parameters, all of them elided, made no request.
C10_Witness ==
    /\ last.params # <<>>
    /\ last.out = <<>>
    /\ last.sent = <<>>

\* What _set_light_optimize_params makes of dict ps for light l now.
Filtered(l, ps) == OptimizeParams(cache[l], TranslateExtensions(ps))

\* C26: whatever the cached state, the filter's result for a dict with
\* transitiontime has transitiontime, with the same value.
C26_TransitionTimeKept ==
    \A l \in CacheLights : \A ps \in CallerDicts :
        SeqHas(ps, "transitiontime") =>
            /\ SeqHas(Filtered(l, ps).new_params, "transitiontime")
            /\ SeqGet(Filtered(l, ps).new_params, "transitiontime")
                  = SeqGet(ps, "transitiontime")

\* A call passed transitiontime on, its other key was elided, and the
\* cached state holds the transitiontime that the next call may pass again.
C26_Witness ==
    /\ ~last.clear
    /\ Len(last.params) = 2
    /\ SeqKeys(last.out) = {"transitiontime"}
    /\ "transitiontime" \in DOMAIN cache[last.light]
    /\ cache[last.light]["transitiontime"]
          = SeqGet(last.out, "transitiontime")

\* C29: the filter's result and the cached state it leaves are the same
\* for every order of the keys of its input.
C29_OrderIndependent ==
    \A l \in CacheLights : \A ps \in CallerDicts :
        \A qs \in Reorderings(ps) :
            /\ AsDict(Filtered(l, qs).new_params)
                  = AsDict(Filtered(l, ps).new_params)
            /\ Filtered(l, qs).state = Filtered(l, ps).state

(***************************************************************************)
(* SpecFilterRaises: set_light_optimized calls of which some fail          *)
(***************************************************************************)

\* The callers' dicts of one key, and the empty one.
OneParamDicts == {ps \in CallerDicts : Len(ps) <= 1}

NextFilterRaises ==
    \/ \E light \in CacheLights, parameter \in OneParamDicts,
          clear \in BOOLEAN :
            SetLightOptimized(light, parameter, clear)
    \/ \E light \in CacheLights, parameter \in OneParamDicts,
          clear \in BOOLEAN :
            SetLightOptimizedRaises(light, parameter, clear)

SpecFilterRaises == InitFilter /\ [][NextFilterRaises]_vars

\* C28: after a set_light_optimized whose bridge call failed, the cached
\* state does not hold what was not sent: the same call again passes the
\* same parameters to set_light.
C28_CacheOnlyWhatWasSent ==
    last.raised =>
        OptimizeParams(cache[last.light], last.params).new_params = last.out

(***************************************************************************)
(* SpecSnapshot: any sequence of collect_light_states and                  *)
(* restore_light_states calls on one state dict.                           *)
(***************************************************************************)

InitSnapshot == SnapshotIdle /\ WorkerIdle /\ DefaultBridge /\ FilterIdle

NextSnapshot ==
    \/ \E light_ids \in LightIdSeqs, include \in BOOLEAN, fresh \in BOOLEAN :
         \E got \in [Range(light_ids) -> LightStates] :
            CollectLightStates(light_ids, got, include, fresh)
    \/ \E light_ids \in LightIdSeqs, transitiontime \in TransitionTimes,
          busy \in SUBSET Lights :
            RestoreLightStates(light_ids, transitiontime, busy)

SpecSnapshot == InitSnapshot /\ [][NextSnapshot]_vars

\* The last call was collect_light_states.
Collected == last_op.op = "collect"

\* The last call was restore_light_states.
Restored == last_op.op = "restore"

\* The lights the last call listed.
Listed == Range(last_op.light_ids)

\* C16 as stated: after a collect the dict has a state only for lights that
\* it had a state for before or that were reachable at this collect; an
\* unreachable light without an earlier state is left out.
C16_UnreachableOmitted ==
    Collected =>
        \A l \in DOMAIN states :
            \/ l \in DOMAIN last_op.before
            \/ l \in Listed /\ last_op.got[l].reachable

\* C16 amended: after a collect the dict has a state only for lights that
\* it had a state for before or that the call listed; a listed light
\* without an earlier state gets the state the bridge reports, also when it
\* is unreachable, and is left out only when it is reachable, in the
\* default state and include_default_state is false.
C16_ListedOrKnown ==
    Collected =>
        /\ DOMAIN states \subseteq (DOMAIN last_op.before) \cup Listed
        /\ \A l \in Listed \ DOMAIN last_op.before :
              IF last_op.got[l].reachable
                 /\ light_state_is_default(last_op.got[l])
                 /\ ~last_op.include
              THEN l \notin DOMAIN states
              ELSE l \in DOMAIN states /\ states[l] = last_op.got[l]

\* A collect recorded the state of an unreachable light that the dict had
\* no state for.
C16_Witness ==
    /\ Collected
    /\ \E l \in Listed \ DOMAIN last_op.before :
          /\ ~last_op.got[l].reachable
          /\ l \in DOMAIN states
          /\ ~states[l].reachable

\* C17: a collect removes no state; it leaves a light's state as it was
\* when the light is not listed, is unreachable, or is in the default state
\* with include_default_state false; and it changes a state only to the
\* state of a listed, reachable light.
C17_CollectMerges ==
    Collected =>
        /\ DOMAIN last_op.before \subseteq DOMAIN states
        /\ \A l \in DOMAIN last_op.before :
              /\ (\/ l \notin Listed
                  \/ ~last_op.got[l].reachable
                  \/ /\ light_state_is_default(last_op.got[l])
                     /\ ~last_op.include)
                    => states[l] = last_op.before[l]
              /\ states[l] # last_op.before[l] =>
                    /\ l \in Listed
                    /\ last_op.got[l].reachable
                    /\ states[l] = last_op.got[l]

\* A collect found a light unreachable and kept the reachable state the
\* dict had for it.
C17_Witness ==
    /\ Collected
    /\ \E l \in Listed \cap DOMAIN last_op.before :
          /\ ~last_op.got[l].reachable
          /\ last_op.before[l].reachable
          /\ states[l] = last_op.before[l]

\* The listed lights the dict has a state for, in the order listed.
KnownListed == SelectSeq(last_op.light_ids, LAMBDA l : l \in DOMAIN states)

\* The set_light call that restore owes light l.
IsRestoreOf(call, l) ==
    /\ call.light = l
    /\ call.parameter = normalized_light_state(states[l])
    /\ call.transitiontime = last_op.transitiontime

C19_OffDropsColour ==
    Restored =>
        \A i \in DOMAIN last_op.calls :
            states[last_op.calls[i].light].on = 0 =>
                (DOMAIN last_op.calls[i].parameter)
                    \cap {"bri", "hue", "sat", "xy", "ct"} = {}

\* The keys of the colour representations other than colormode m.
OtherModeKeys(m) ==
    CASE m = "hs" -> {"ct", "xy"}
      [] m = "ct" -> {"hue", "sat", "xy"}
      [] m = "xy" -> {"ct", "hue", "sat"}

\* The keys restore sent to the bridge for its i-th set_light call.
SentKeys(i) ==
    UNION {SeqKeys(last_op.calls[i].sent[j].params) :
             j \in DOMAIN last_op.calls[i].sent}

\* The captured state behind the i-th set_light call of restore.
CapturedOf(i) == states[last_op.calls[i].light]

\* C20 as stated: what restore sends for a captured state with colormode m
\* has no key of another colour representation and none of colormode,
\* reachable, mode.
C20_NoOtherRepresentation ==
    Restored =>
        \A i \in DOMAIN last_op.calls :
            /\ SentKeys(i) \cap {"colormode", "reachable", "mode"} = {}
            /\ "colormode" \in DOMAIN CapturedOf(i) =>
                  SentKeys(i) \cap OtherModeKeys(CapturedOf(i).colormode) = {}

\* The captured state is in ct mode with a ct outside MIN['ct']..MAX['ct'].
WideCt(state) ==
    /\ "colormode" \in DOMAIN state
    /\ state.colormode = "ct"
    /\ ~(MIN_ct <= state.ct /\ state.ct <= MAX_ct)

\* C20 amended: what restore sends for a captured state with colormode m
\* has none of colormode, reachable, mode and no key of another colour
\* representation, except that a captured state in ct mode whose ct lies
\* outside 153..500 is sent with an xy key in place of its ct key.
C20_NoOtherRepresentationInRange ==
    Restored =>
        \A i \in DOMAIN last_op.calls :
            /\ SentKeys(i) \cap {"colormode", "reachable", "mode"} = {}
            /\ "colormode" \in DOMAIN CapturedOf(i) =>
                  IF WideCt(CapturedOf(i))
                  THEN /\ SentKeys(i) \cap {"hue", "sat", "ct"} = {}
                       /\ "xy" \in SentKeys(i)
                  ELSE SentKeys(i)
                          \cap OtherModeKeys(CapturedOf(i).colormode) = {}

\* A restore sent the xy key, and no hue, sat or ct, for a state captured
\* in xy mode.
C20_Witness ==
    /\ Restored
    /\ \E i \in DOMAIN last_op.calls :
          /\ CapturedOf(i).colormode = "xy"
          /\ "xy" \in SentKeys(i)
          /\ SentKeys(i) \cap {"hue", "sat", "ct"} = {}

NextMonitor ==
    \/ \E light_ids \in LightIdSeqs :
         \E got \in [Range(light_ids) -> LightStates] :
            CollectLightStates(light_ids, got, FALSE, FALSE)
    \/ \E light_ids \in LightIdSeqs, busy \in SUBSET Lights :
            RestoreLightStates(light_ids, 4, busy)

SpecMonitor == InitSnapshot /\ [][NextMonitor]_vars

\* The command sets what light_state_is_default looks for: on, brightness
\* 254 and colour temperature 366, with no other colour.
DefaultCommand(parameter) ==
    /\ parameter.on = 1
    /\ DictGet(parameter, "ct", 366) = 366
    /\ DictGet(parameter, "bri", 0) = 254
    /\ (DOMAIN parameter) \cap {"hue", "sat", "xy"} = {}

\* No state of the dict is one that light_state_is_default accepts.
NoDefaultStored ==
    \A l \in DOMAIN states : ~light_state_is_default(states[l])

\* C30 as stated: no state of the dict is one that light_state_is_default
\* accepts, and so no restore sets a light to the power-on default.
C30_NeverDefault ==
    /\ NoDefaultStored
    /\ Restored =>
          \A i \in DOMAIN last_op.calls :
              ~DefaultCommand(last_op.calls[i].parameter)

\* C30 amended: no state of the dict is one that light_state_is_default
\* accepts, and a restore sets a light to the power-on default only from a
\* state that was recorded while the light was unreachable.
C30_NoReachableDefault ==
    /\ NoDefaultStored
    /\ Restored =>
          \A i \in DOMAIN last_op.calls :
              DefaultCommand(last_op.calls[i].parameter)
                  => ~CapturedOf(i).reachable

\* A collect found a listed light in the default state and stored nothing
\* for it, while it stored the other light's state.
C30_Witness ==
    /\ Collected
    /\ \E l \in Listed :
          /\ light_state_is_default(last_op.got[l])
          /\ l \notin DOMAIN states
    /\ states # EmptyDict

(***************************************************************************)
(* SpecRestoreRetry: restore_light_states_retry calls on a state dict that *)
(* knows light 1 and not light 2.                                          *)
(***************************************************************************)

\* collect_light_states([1]) while light 1 is on, in hs mode.
CollectedOne ==
    CollectLoop(EmptyDict, <<1>>,
                [l \in {1} |-> ColourLight(TRUE, 1, "hs", 100, 300)], TRUE, 1)

InitRestoreRetry ==
    /\ states = CollectedOne
    /\ last_op = NoOp
    /\ max_retries = 0
    /\ rr_pc = "idle"
    /\ attempts = <<>>
    /\ WorkerIdle
    /\ DefaultBridge
    /\ FilterIdle

NextRestoreRetry ==
    \/ \E n \in RetryArgs, light_ids \in LightIdSeqs,
          transitiontime \in TransitionTimes :
            RestoreRetryCall(n, light_ids, transitiontime)
    \/ \E busy \in SUBSET Lights : RestoreAttempt(busy)
    \/ RestoreAttemptFails
    \/ RestoreRetrySleepDone

SpecRestoreRetry == InitRestoreRetry /\ [][NextRestoreRetry]_vars

\* C15: restore_light_states_retry makes at least one restore attempt and
\* at most max_retries + 1 (one when that is less), each after a failed one
\* that raised BridgeInternalError; it stops at the first attempt that does
\* not raise it, and when every attempt raised it, it returns without
\* raising.
C15_RestoreRetry ==
    LET most == IF max_retries >= 0 THEN max_retries + 1 ELSE 1
    IN /\ Len(attempts) <= most
       /\ \A i \in 1..(Len(attempts) - 1) : attempts[i] = "busy"
       /\ rr_pc \in {"returned", "gave_up", "raised"} => Len(attempts) >= 1
       /\ rr_pc = "returned" => attempts[Len(attempts)] = "ok"
       /\ rr_pc = "gave_up" =>
            /\ Len(attempts) = most
            /\ \A i \in DOMAIN attempts : attempts[i] = "busy"
       /\ rr_pc = "raised" => attempts[Len(attempts)] = "other"
       /\ (attempts # <<>> /\ attempts[Len(attempts)] = "ok")
            => rr_pc = "returned"

\* A call with max_retries = 1 gave up after two attempts that both raised
\* BridgeInternalError.
C15_Witness ==
    /\ max_retries = 1
    /\ rr_pc = "gave_up"
    /\ attempts = <<"busy", "busy">>

(***************************************************************************)
(* SpecWorkerFair: the worker with a clock that runs on, a UI thread that  *)
(* puts events for as long as it likes, and bridge calls that return       *)
(***************************************************************************)

RECURSIVE Received(_)
\* The number of events taken from the queue and not yet dispatched, over
\* the lights of S.
Received(S) ==
    IF S = {} THEN 0
    ELSE LET l == CHOOSE x \in S : TRUE
         IN Len(recv[l]) + Received(S \ {l})

\* The events put and not yet dispatched.
Undelivered == Len(queue) + Received(Lights)

\* The UI thread: light_update_queue.put((light_id, param, value)), any
\* number of times, with fewer than MaxEvents events undelivered at a time.
PutMore(e) ==
    /\ ~UiEnded
    /\ ui = "idle"
    /\ Undelivered < MaxEvents
    /\ queue' = Append(queue, e)
    /\ UNCHANGED <<pending_cmds, pc, now, last_update_time, deadline, nput,
                   inflight, recv, dispatched_at, at_sentinel>>
    /\ UNCHANGED <<bridge_lock, ui, rvars, fvars, svars>>

\* A reading of time() seen from an origin one interval later.  A reading
\* older than the interval stays: the thread only asks whether it is at
\* least one interval ago, and for the remainder of its age modulo the
\* interval.
Shift(t) ==
    IF t >= MIN_BRIDGE_CMD_INTERVAL THEN t - MIN_BRIDGE_CMD_INTERVAL ELSE t

\* The origin of time() moves on by one interval, and every reading the
\* thread holds with it: run() compares differences of readings only.
Rebase ==
    /\ now = MaxTime
    /\ now' = Shift(now)
    /\ last_update_time' = Shift(last_update_time)
    /\ deadline' = Shift(deadline)
    /\ dispatched_at' = [l \in DOMAIN dispatched_at |-> Shift(dispatched_at[l])]
    /\ UNCHANGED <<queue, pending_cmds, pc, nput, inflight, recv, at_sentinel>>
    /\ UNCHANGED <<bridge_lock, ui, rvars, fvars, svars>>

\* Every step of BridgeUpdateThread.run with a set_light call that returns.
WorkerStep ==
    \/ LoopUpdate
    \/ LoopWait
    \/ CallReturn
    \/ GetEvent
    \/ GetNone
    \/ GetTimeout
    \/ FlushUpdate
    \/ FlushDone
    \/ FlushReturn
    \/ SleepDone

\* One brightness setting for each light.
BriEvents == {e \in Events : e.param = "bri" /\ e.value = 10}

NextWorkerFair ==
    \/ \E e \in BriEvents : PutMore(e)
    \/ PutNone
    \/ Tick
    \/ Rebase
    \/ LoopUpdate
    \/ LoopWait
    \/ CallReturn
    \/ GetEvent
    \/ GetNone
    \/ GetTimeout
    \/ FlushUpdate
    \/ FlushDone
    \/ FlushReturn
    \/ SleepDone
    \/ RefreshLight
    \/ GetLightDone

\* The thread is scheduled, time passes, and the UI thread's get_light
\* returns; the UI thread owes no event and no None.
FairWorker ==
    /\ WF_vars(WorkerStep)
    /\ WF_vars(Tick \/ Rebase)
    /\ WF_vars(GetLightDone)

SpecWorkerFair == InitWorker /\ [][NextWorkerFair]_vars /\ FairWorker

\* SpecWorkerFair with a lock that is not unfair to the thread: a thread
\* that waits for bridge_lock at the top of the event loop gets it when it
\* is released again and again.
SpecWorkerLockFair == SpecWorkerFair /\ SF_vars(LoopUpdate)

\* Light l has just been popped and its command is in the set_light call.
InCallFor(l) ==
    /\ pc \in {"call", "flushcall"}
    /\ inflight.light = l
    /\ recv[l] = <<>>

C14_WorkerTermination ==
    /\ UiEnded ~> (pc = "done" /\ pending_cmds = EmptyDict)
    /\ [](at_sentinel.seen => pc # "get")

\* The thread took None with commands for both lights pending, and stopped
\* with nothing pending.
C14_Witness ==
    /\ at_sentinel.seen
    /\ at_sentinel.pending = Lights
    /\ pc = "done"
    /\ pending_cmds = EmptyDict

(***************************************************************************)
(* SpecTranslate: _set_light_translate_extensions on the dicts of at most  *)
(* MaxExtParams keys                                                       *)
(***************************************************************************)

InitTranslate == FilterIdle /\ WorkerIdle /\ DefaultBridge /\ SnapshotIdle

NextTranslate ==
    \E params_dict \in ExtParamDicts(MaxExtParams) :
        TranslateCall(params_dict)

SpecTranslate == InitTranslate /\ [][NextTranslate]_vars

\* ct lies within MIN['ct']..MAX['ct'].
NativeCt(ct) == MIN_ct <= ct /\ ct <= MAX_ct

\* C21: translating the translated dict changes nothing; the translated
\* dict is the same mapping for every order of the input's keys; and it has
\* no inc, no ctk and no ct outside MIN['ct']..MAX['ct'].
C21_ExpansionIdempotent ==
    /\ TranslateExtensions(tr.output) = tr.output
    /\ \A ps \in Reorderings(tr.input) :
          AsDict(TranslateExtensions(ps)) = AsDict(tr.output)
    /\ SeqKeys(tr.output) \cap {"inc", "ctk"} = {}
    /\ SeqHas(tr.output, "ct") => NativeCt(SeqGet(tr.output, "ct"))

\* A dict with inc, bri and a ct below MIN['ct'] was translated into one
\* with bri and xy.
C21_Witness ==
    /\ SeqKeys(tr.input) = {"inc", "bri", "ct"}
    /\ ~NativeCt(SeqGet(tr.input, "ct"))
    /\ SeqKeys(tr.output) = {"bri", "xy"}
    /\ SeqGet(tr.output, "bri") = SeqGet(tr.input, "inc")

\* The input has a ctk and nothing else that the translator turns into a
\* colour temperature or overwrites with one.
CtkAlone ==
    /\ SeqHas(tr.input, "ctk")
    /\ SeqKeys(tr.input) \cap {"inc", "ct", "xy"} = {}

\* C22 as stated: a ctk within MIN['ctk']..MAX['ctk'] comes out as
\* ct = int(10^6 / ctk) and no xy; only a ctk outside it comes out as xy.
C22_CtkInRangeBecomesCt ==
    CtkAlone =>
        LET kelvin == SeqGet(tr.input, "ctk")
        IN IF MIN_ctk <= kelvin /\ kelvin <= MAX_ctk
           THEN /\ SeqHas(tr.output, "ct")
                /\ SeqGet(tr.output, "ct") = iconv_ct(kelvin)
                /\ ~SeqHas(tr.output, "xy")
           ELSE /\ SeqHas(tr.output, "xy")
                /\ SeqGet(tr.output, "xy") = kelvin_to_xy(kelvin)

\* C22 amended: every ctk, within MIN['ctk']..MAX['ctk'] or not, comes out
\* as xy = kelvin_to_xy(ctk) and no ct; a ct within MIN['ct']..MAX['ct']
\* stays as it is, and a ct outside it comes out as
\* xy = kelvin_to_xy(int(10^6 / ct)).
C22_CtkBecomesXy ==
    /\ CtkAlone =>
          /\ SeqHas(tr.output, "xy")
          /\ SeqGet(tr.output, "xy") = kelvin_to_xy(SeqGet(tr.input, "ctk"))
          /\ SeqKeys(tr.output) \cap {"ct", "ctk"} = {}
    /\ (SeqHas(tr.input, "ct") /\ SeqKeys(tr.input) \cap {"inc", "ctk"} = {})
          => IF NativeCt(SeqGet(tr.input, "ct"))
             THEN tr.output = tr.input
             ELSE /\ SeqHas(tr.output, "xy")
                  /\ SeqGet(tr.output, "xy")
                        = kelvin_to_xy(iconv_ct(SeqGet(tr.input, "ct")))
                  /\ SeqKeys(tr.output) \cap {"ct", "ctk"} = {}

\* A ctk = 2700, within MIN['ctk']..MAX['ctk'], came out as an xy pair.
C22_Witness ==
    /\ CtkAlone
    /\ SeqGet(tr.input, "ctk") = 2700
    /\ SeqHas(tr.output, "xy")
    /\ SeqGet(tr.output, "xy") = kelvin_to_xy(2700)
    /\ ~SeqHas(tr.output, "ct")

(***************************************************************************)
(* SpecWorkerLatePut: the worker with a caller that puts events after None *)
(***************************************************************************)

NextWorkerLatePut ==
    \/ \E e \in Events : Put(e)
    \/ \E e \in Events : PutLate(e)
    \/ PutNone
    \/ Tick
    \/ LoopUpdate
    \/ LoopWait
    \/ CallReturn
    \/ CallRaise
    \/ GetEvent
    \/ GetNone
    \/ GetTimeout
    \/ FlushUpdate
    \/ FlushDone
    \/ FlushReturn
    \/ SleepDone
    \/ RefreshLight
    \/ GetLightDone

SpecWorkerLatePut == InitWorker /\ [][NextWorkerLatePut]_vars

\* Where run() is: 1 in the event loop, 2 in the shutdown loop, 3 ended.
Phase ==
    CASE pc \in {"loop", "get", "call"} -> 1
      [] pc \in {"flush", "flushcall", "sleep"} -> 2
      [] pc \in {"done", "crashed"} -> 3

\* q begins with p.
IsPrefix(p, q) == Len(p) <= Len(q) /\ SubSeq(q, 1, Len(p)) = p

\* C25: run() never goes back to an earlier phase, it has left the event
\* loop once it has taken None, and from then on it takes nothing from the
\* queue and merges nothing: the commands pending only become fewer.
C25_PhasesAdvance ==
    /\ [](at_sentinel.seen => Phase >= 2)
    /\ [][/\ Phase' >= Phase
          /\ at_sentinel.seen =>
                /\ IsPrefix(queue, queue')
                /\ \A l \in Lights : recv'[l] \in {recv[l], <<>>}
                /\ DOMAIN pending_cmds' \subseteq DOMAIN pending_cmds
                /\ \A l \in DOMAIN pending_cmds' :
                      pending_cmds'[l] = pending_cmds[l]]_vars

\* The thread has ended after None, and an event put after None is still
\* on the queue.
C25_Witness ==
    /\ at_sentinel.seen
    /\ pc = "done"
    /\ queue # <<>>
    /\ at_sentinel.pending # {}

====
